---------------------------- MODULE Spec2Model ----------------------------
(***************************************************************************)
(* Violation lifecycle tracker of the flake8 fix-history miner.            *)
(*                                                                         *)
(*   src/src/modules/diff_tracker.py   hunk headers -> per-file line map   *)
(*   src/src/modules/data_manager.py   the batch ledger                    *)
(*       (process_violations_batch_optimized and its remap helper)         *)
(*                                                                         *)
(* Line numbers are decimal strings in the code (flake8 prints them, the   *)
(* remap writes str(new_line)); a canonical decimal string is represented  *)
(* here by the natural number it denotes, so int(..) and str(..) are the   *)
(* two directions of that one-to-one correspondence.  Commit hashes are    *)
(* the strings "1", "2", ... (position in commits_data), '' is "".         *)
(***************************************************************************)
EXTENDS Integers, Sequences, FiniteSets, TLC

VARIABLES
    violation_rows,      \* data_manager.py:242  list of rows
    violation_tracker,   \* data_manager.py:243  dict key -> row index, in insertion order
    commit_index,        \* number of entries of commits_data processed so far
    line_mappings,       \* data_manager.py:275  line maps of the last processed commit
    current_violations,  \* data_manager.py:269  raw snapshot of the last processed commit
    returncode,          \* diff_tracker.py:20   exit status of the last 'git show'
    diff_commit,         \* diff_tracker.py:102  commit whose diff the last line maps come from
    csv_file,            \* csv_exporter.py:18   data rows of dataset/<pkg>/fix_history.csv
    repo_queue,          \* analyze_parallel.py:237  submitted repositories no process has taken
    pool_workers,        \* analyze_parallel.py:63   per pool process: the worker call it runs
    fs,                  \* the files and directories the workers create, by path
    futures,             \* analyze_parallel.py:237  future_to_repo, per repository
    completed_count,     \* analyze_parallel.py:242
    success_count,       \* analyze_parallel.py:231
    map_pc,              \* position of the stand-alone line-map computation
    hunk_lines,          \* diff_tracker.py:63   the '@@' lines of one file
    file_line_mapping,   \* diff_tracker.py:128  the map computed from hunk_lines
    diff_output,         \* diff_tracker.py:30   the lines of the output of 'git show'
    diff_mappings,       \* diff_tracker.py:104  what get_diff_for_commit returns
    header_text,         \* diff_tracker.py:74   hunk_line: the text of one '@@' line
    header_mapping,      \* diff_tracker.py:88   mapping: what _parse_hunk_header returns
    fix_history_df,      \* data_manager.py:18   rows of the DataFrame of the sequential run
    changed_python_files \* analyze_main.py:98   .py files the last processed commit changed

vars == <<violation_rows, violation_tracker, commit_index, line_mappings,
          current_violations, returncode, diff_commit, csv_file,
          repo_queue, pool_workers, fs, futures, completed_count, success_count,
          map_pc, hunk_lines, file_line_mapping, diff_output, diff_mappings,
          header_text, header_mapping, fix_history_df, changed_python_files>>

df_vars == <<fix_history_df, changed_python_files>>

pool_vars == <<repo_queue, pool_workers, fs, futures, completed_count, success_count>>

ledger_vars == <<violation_rows, violation_tracker, commit_index, line_mappings,
                 current_violations, returncode, diff_commit>>

map_vars == <<map_pc, hunk_lines, file_line_mapping, diff_output, diff_mappings,
              header_text, header_mapping>>

----------------------------------------------------------------------------
(* Bounds and input domains *)

\* commits_data entries per run (the first one seeds the ledger)
MaxCommits == 3

\* highest line number flake8 reports and a hunk header names in a ledger run
MaxLine == 2

\* highest line count a hunk header gives
MaxCount == 1

\* highest line number a hunk header names in the stand-alone map computation
MaxHunkLine == 3

\* how many '@@' lines one file has in the stand-alone map computation
HunkListLengths == 0..2

FilesSeq == <<"a.py", "b.py">>

Files == {FilesSeq[i] : i \in 1..Len(FilesSeq)}

\* (error_code, file_path, line_number) of flake8_analyzer.py:104
RawUniverse ==
    {[vid |-> "E501", file |-> "a.py", line |-> l] : l \in 1..MaxLine}
    \cup {[vid |-> "W291", file |-> "a.py", line |-> 1],
          [vid |-> "E501", file |-> "b.py", line |-> 1]}

----------------------------------------------------------------------------
(* Small helpers *)

Max(S) == CHOOSE x \in S : \A y \in S : y <= x

Min(S) == CHOOSE x \in S : \A y \in S : x <= y

RECURSIVE SortedSeq(_)
\* list.sort() of a list of distinct integers
SortedSeq(S) ==
    IF S = {} THEN <<>> ELSE <<Min(S)>> \o SortedSeq(S \ {Min(S)})

FileRank(f) == CHOOSE i \in 1..Len(FilesSeq) : FilesSeq[i] = f

\* flake8 prints its findings file by file, in line order
ReportedBefore(v, w) ==
    \/ FileRank(v.file) < FileRank(w.file)
    \/ v.file = w.file /\ v.line < w.line
    \/ v.file = w.file /\ v.line = w.line /\ v.vid = "E501" /\ w.vid # "E501"

RECURSIVE ReportOrder(_)
ReportOrder(S) ==
    IF S = {} THEN <<>>
    ELSE LET first == CHOOSE v \in S : \A w \in S \ {v} : ReportedBefore(v, w)
         IN <<first>> \o ReportOrder(S \ {first})

CommitHash(i) == ToString(i)

EmptyDict == [f \in {} |-> <<>>]

----------------------------------------------------------------------------
(* diff_tracker.py: from '@@' lines to the line map of one file *)

\* A '@@' line: matches tells whether the header pattern of line 77 matches;
\* a count is <<n>> when written and <<>> when the header omits it.
HunkLine(matches, a, b, c, d) ==
    [matches |-> matches, old_start |-> a, old_count |-> b,
     new_start |-> c, new_count |-> d]

Counts(maxCount) == {<<>>} \cup {<<n>> : n \in 0..maxCount}

HunkLinesUpTo(maxLine, maxCount) ==
    {HunkLine(TRUE, a, b, c, d) :
        a \in 0..maxLine, b \in Counts(maxCount),
        c \in 0..maxLine, d \in Counts(maxCount)}
    \cup {HunkLine(FALSE, 0, <<>>, 0, <<>>)}

\* the empty dict of lines 80-81 and 88, as its deleted and its added lines
NoMapping == [deleted |-> {}, added |-> {}]

\* CountOf with the test on the number instead of on the group's text
CountOfZeroAsOmitted(group) == IF group = <<>> \/ group[1] = 0 THEN 1 ELSE group[1]

\* int(match.group(n)) if match.group(n) else 1
CountOf(group) == IF group = <<>> THEN 1 ELSE group[1]

\* The dict built from one header: its int keys (value None) are the
\* deleted old lines, its "new_<n>" keys (value n) the added new lines.
ParseHunkHeader(hunk_line) ==
    IF ~hunk_line.matches
    THEN [deleted |-> {}, added |-> {}]
    ELSE [deleted |-> {hunk_line.old_start + i :
                          i \in 0..(CountOf(hunk_line.old_count) - 1)},
          added   |-> {hunk_line.new_start + i :
                          i \in 0..(CountOf(hunk_line.new_count) - 1)}]

RECURSIVE ProcessHunks(_)
\* line_mapping.update(mapping) for every '@@' line of the file
ProcessHunks(hunks) ==
    IF hunks = <<>>
    THEN [deleted |-> {}, added |-> {}]
    ELSE LET rest    == ProcessHunks(Tail(hunks))
             mapping == ParseHunkHeader(Head(hunks))
         IN [deleted |-> mapping.deleted \cup rest.deleted,
             added   |-> mapping.added \cup rest.added]

RECURSIVE SkipDeletedDouble(_, _, _, _)
\* SkipDeleted with the offset lowered by 2 for a deleted line
SkipDeletedDouble(deleted_lines, line_num, offset, deleted_index) ==
    IF /\ deleted_index < Len(deleted_lines)
       /\ deleted_lines[deleted_index + 1] <= line_num
    THEN SkipDeletedDouble(deleted_lines, line_num,
                           IF deleted_lines[deleted_index + 1] = line_num
                           THEN offset - 2 ELSE offset,
                           deleted_index + 1)
    ELSE [offset |-> offset, deleted_index |-> deleted_index]

RECURSIVE SkipDeleted(_, _, _, _)
\* the while loop of lines 142-145
SkipDeleted(deleted_lines, line_num, offset, deleted_index) ==
    IF /\ deleted_index < Len(deleted_lines)
       /\ deleted_lines[deleted_index + 1] <= line_num
    THEN SkipDeleted(deleted_lines, line_num,
                     IF deleted_lines[deleted_index + 1] = line_num
                     THEN offset - 1 ELSE offset,
                     deleted_index + 1)
    ELSE [offset |-> offset, deleted_index |-> deleted_index]

RECURSIVE SkipAddedStrict(_, _, _, _)
\* SkipAdded with < for the <= of line 148
SkipAddedStrict(added_lines, line_num, offset, added_index) ==
    IF /\ added_index < Len(added_lines)
       /\ added_lines[added_index + 1] < line_num + offset
    THEN SkipAddedStrict(added_lines, line_num, offset + 1, added_index + 1)
    ELSE [offset |-> offset, added_index |-> added_index]

RECURSIVE SkipAdded(_, _, _, _)
\* the while loop of lines 148-150
SkipAdded(added_lines, line_num, offset, added_index) ==
    IF /\ added_index < Len(added_lines)
       /\ added_lines[added_index + 1] <= line_num + offset
    THEN SkipAdded(added_lines, line_num, offset + 1, added_index + 1)
    ELSE [offset |-> offset, added_index |-> added_index]

RECURSIVE WalkLines(_, _, _, _, _, _, _)
\* the for loop of lines 140-152; line_mapping is built as a sequence,
\* element n being line_mapping[n]
WalkLines(deleted_lines, added_lines, line_num, max_line, offset, deleted_index, added_index) ==
    IF line_num > max_line
    THEN <<>>
    ELSE LET del == SkipDeleted(deleted_lines, line_num, offset, deleted_index)
             add == SkipAdded(added_lines, line_num, del.offset, added_index)
         IN <<line_num + add.offset>>
            \o WalkLines(deleted_lines, added_lines, line_num + 1, max_line,
                         add.offset, del.deleted_index, add.added_index)

\* _calculate_file_line_mapping: a dict with the keys 1..max_line
CalculateFileLineMapping(file_mappings) ==
    LET deleted_lines == SortedSeq(file_mappings.deleted)
        added_lines   == SortedSeq(file_mappings.added)
        max_line      == Max({1} \cup file_mappings.deleted
                                 \cup file_mappings.added)
    IN WalkLines(deleted_lines, added_lines, 1, max_line, 0, 0, 0)

----------------------------------------------------------------------------
(* diff_tracker.py: from the text of 'git show' to the '@@' lines of each
   file.  A line of text is the tuple of its parts: a '@@' line is spelled
   character by character, the other lines are a prefix and the rest. *)

DigitChars == <<"0", "1", "2", "3", "4", "5", "6", "7", "8", "9">>

\* the pattern \d for one character
IsDigitChar(ch) == \E n \in 1..Len(DigitChars) : DigitChars[n] = ch

DigitValue(ch) == (CHOOSE n \in 1..Len(DigitChars) : DigitChars[n] = ch) - 1

RECURSIVE DigitRun(_, _)
\* how many characters \d+ takes at position p (0: no match)
DigitRun(line, p) ==
    IF p <= Len(line) /\ IsDigitChar(line[p])
    THEN 1 + DigitRun(line, p + 1)
    ELSE 0

RECURSIVE IntOf(_)
\* int(group) of a run of digits
IntOf(digits) ==
    IF digits = <<>> THEN 0
    ELSE 10 * IntOf(SubSeq(digits, 1, Len(digits) - 1))
            + DigitValue(digits[Len(digits)])

\* the literal text lit stands at position p of line
LiteralAt(line, p, lit) ==
    /\ p + Len(lit) - 1 <= Len(line)
    /\ \A i \in 1..Len(lit) : line[p + i - 1] = lit[i]

\* line.startswith(prefix), for a line spelled character by character
StartsWith(line, prefix) == LiteralAt(line, 1, prefix)

\* (\d+) at position p: the group's value and the position after it
NumberAt(line, p) ==
    [ok |-> DigitRun(line, p) > 0,
     value |-> IntOf(SubSeq(line, p, p + DigitRun(line, p) - 1)),
     next |-> p + DigitRun(line, p)]

\* (?:,(\d+))? at position p: the group (<<>> when it takes no part in the
\* match) and the position after it
CountAt(line, p) ==
    IF LiteralAt(line, p, <<",">>) /\ NumberAt(line, p + 1).ok
    THEN [group |-> <<NumberAt(line, p + 1).value>>, next |-> NumberAt(line, p + 1).next]
    ELSE [group |-> <<>>, next |-> p]

\* re.match(r'^@@ -(\d+)(?:,(\d+))? \+(\d+)(?:,(\d+))? @@', hunk_line) of
\* line 78, as the match object of HunkLine
MatchHunkHeader(line) ==
    LET old_start == NumberAt(line, 5)
        old_count == CountAt(line, old_start.next)
        new_start == NumberAt(line, old_count.next + 2)
        new_count == CountAt(line, new_start.next)
    IN IF /\ LiteralAt(line, 1, <<"@", "@", " ", "-">>)
          /\ old_start.ok
          /\ LiteralAt(line, old_count.next, <<" ", "+">>)
          /\ new_start.ok
          /\ LiteralAt(line, new_count.next, <<" ", "@", "@">>)
       THEN HunkLine(TRUE, old_start.value, old_count.group,
                     new_start.value, new_count.group)
       ELSE HunkLine(FALSE, 0, <<>>, 0, <<>>)

\* _parse_hunk_header on the text of a line
ParseHunkHeaderText(line) == ParseHunkHeader(MatchHunkHeader(line))

\* _process_hunks on the texts of the '@@' lines of a file
ProcessHunkTexts(current_hunks) ==
    ProcessHunks([n \in 1..Len(current_hunks) |-> MatchHunkHeader(current_hunks[n])])

\* lines 40-41 and 58-59: the hunks collected for current_file become its
\* entry; None is ""
FlushHunks(line_mappings_, current_file, current_hunks) ==
    IF current_file # "" /\ current_hunks # <<>>
    THEN [f \in DOMAIN line_mappings_ \cup {current_file} |->
             IF f = current_file
             THEN ProcessHunkTexts(current_hunks) ELSE line_mappings_[f]]
    ELSE line_mappings_

RECURSIVE ParseLines(_, _, _, _, _)
\* the loop of lines 36-55 and the flush after it
ParseLines(lines, n, line_mappings_, current_file, current_hunks) ==
    IF n > Len(lines)
    THEN FlushHunks(line_mappings_, current_file, current_hunks)
    ELSE LET line == lines[n]
         IN IF line[1] = "diff --git"
            THEN ParseLines(lines, n + 1,
                            FlushHunks(line_mappings_, current_file, current_hunks),
                            "", <<>>)
            ELSE IF line[1] = "--- a/" \/ line[1] = "+++ b/"
            THEN ParseLines(lines, n + 1, line_mappings_,
                            IF line[1] = "+++ b/" THEN line[2] ELSE current_file,
                            current_hunks)
            ELSE IF StartsWith(line, <<"@", "@">>) /\ current_file # ""
            THEN ParseLines(lines, n + 1, line_mappings_, current_file,
                            Append(current_hunks, line))
            ELSE ParseLines(lines, n + 1, line_mappings_, current_file, current_hunks)

\* _parse_diff_output
ParseDiffOutput(lines) == ParseLines(lines, 1, EmptyDict, "", <<>>)

\* get_diff_for_commit: 'git show' exits with returncode_ and, when that is
\* 0, its output parses to parsed; a non-zero exit gives {} (lines 20-22),
\* and so does an exception of subprocess.run (lines 26-28)
GetDiffForCommit(returncode_, parsed) ==
    IF returncode_ # 0 THEN EmptyDict ELSE parsed

\* calculate_line_mapping over the dict get_diff_for_commit returns: one
\* entry per file that has '@@' lines
CalculateLineMapping(diff_hunks) ==
    [f \in DOMAIN diff_hunks |->
        CalculateFileLineMapping(ProcessHunks(diff_hunks[f]))]

----------------------------------------------------------------------------
(* data_manager.py: the batch ledger *)

\* (violation[0], violation[1], violation[4])
ViolationKey(violation) == <<violation.vid, violation.file, violation.line>>

\* violation[2]: the text flake8 prints after the code, which is the text
\* of the rule
MessageOf(violation) ==
    IF violation.vid = "E501" THEN "line too long" ELSE "trailing whitespace"

\* CreateViolationRowData with commit_hash also in column 7 (Fix Commit Hash)
CreateViolationRowDataFixCommit(violation, commit_hash) ==
    [vid |-> violation.vid, file |-> violation.file,
     message |-> MessageOf(violation), line |-> violation.line,
     err_commit |-> commit_hash, fix_commit |-> commit_hash, fixed |-> "False"]

\* the columns of a row that the tracker reads or writes, and the message:
\* [0] Violation ID, [2] File Path, [3] Message, [4] Violation Line Number,
\* [6] Error Commit Hash, [7] Fix Commit Hash, [-1] Fixed
CreateViolationRowData(violation, commit_hash) ==
    [vid |-> violation.vid, file |-> violation.file,
     message |-> MessageOf(violation), line |-> violation.line,
     err_commit |-> commit_hash, fix_commit |-> "", fixed |-> "False"]

\* key in dict
HasKey(dict, key) == \E n \in 1..Len(dict) : dict[n].key = key

\* dict[key] = row_index: an existing key keeps its place, a new one goes last
DictSet(dict, key, row_index) ==
    IF HasKey(dict, key)
    THEN [n \in 1..Len(dict) |->
             IF dict[n].key = key
             THEN [key |-> key, idx |-> row_index] ELSE dict[n]]
    ELSE Append(dict, [key |-> key, idx |-> row_index])

\* str(current_line_number).isdigit()
IsDigit(line_number) == line_number >= 0

\* RemapItem without the test of the Fixed column (line 352)
RemapItemAnyRow(item, row, line_mappings_) ==
    LET file_path == item.key[2]
        old_line  == item.key[3]
    IN IF /\ file_path \in DOMAIN line_mappings_
          /\ IsDigit(old_line)
          /\ old_line \in DOMAIN line_mappings_[file_path]
          /\ line_mappings_[file_path][old_line] # old_line
       THEN LET new_line == line_mappings_[file_path][old_line]
            IN [row |-> [row EXCEPT !.line = new_line],
                key |-> <<item.key[1], file_path, new_line>>]
       ELSE [row |-> row, key |-> item.key]

\* RemapItem with a line beyond the map's range (line 357 false) moved by the
\* offset of the map's last line instead of kept (lines 370-372)
RemapItemShiftBeyond(item, row, line_mappings_) ==
    LET file_path == item.key[2]
        old_line  == item.key[3]
    IN IF /\ row.fixed = "False"
          /\ file_path \in DOMAIN line_mappings_
          /\ IsDigit(old_line)
       THEN LET file_mapping == line_mappings_[file_path]
                last == Len(file_mapping)
                new_line == IF old_line \in DOMAIN file_mapping
                            THEN file_mapping[old_line]
                            ELSE old_line + file_mapping[last] - last
            IN IF new_line # old_line
               THEN [row |-> [row EXCEPT !.line = new_line],
                     key |-> <<item.key[1], file_path, new_line>>]
               ELSE [row |-> row, key |-> item.key]
       ELSE [row |-> row, key |-> item.key]

\* One tracker item of the loop of lines 348-378: the row (changed only when
\* its line moves) and the key the item gets in new_violation_tracker.
RemapItem(item, row, line_mappings_) ==
    LET file_path == item.key[2]
        old_line  == item.key[3]
    IN IF /\ row.fixed = "False"
          /\ file_path \in DOMAIN line_mappings_
          /\ IsDigit(old_line)
          /\ old_line \in DOMAIN line_mappings_[file_path]
          /\ line_mappings_[file_path][old_line] # old_line
       THEN LET new_line == line_mappings_[file_path][old_line]
            IN [row |-> [row EXCEPT !.line = new_line],
                key |-> <<item.key[1], file_path, new_line>>]
       ELSE [row |-> row, key |-> item.key]

RECURSIVE RemapLoopMovedOnly(_, _, _, _, _)
\* RemapLoop without the else branches (lines 367-378) that keep the key of
\* an item whose line does not move
RemapLoopMovedOnly(items, n, rows, new_violation_tracker, line_mappings_) ==
    IF n > Len(items)
    THEN [rows |-> rows, tracker |-> new_violation_tracker]
    ELSE LET row_index == items[n].idx
             res == RemapItem(items[n], rows[row_index], line_mappings_)
         IN RemapLoopMovedOnly(items, n + 1,
                      [rows EXCEPT ![row_index] = res.row],
                      IF res.key # items[n].key
                      THEN DictSet(new_violation_tracker, res.key, row_index)
                      ELSE new_violation_tracker,
                      line_mappings_)

RECURSIVE RemapLoop(_, _, _, _, _)
RemapLoop(items, n, rows, new_violation_tracker, line_mappings_) ==
    IF n > Len(items)
    THEN [rows |-> rows, tracker |-> new_violation_tracker]
    ELSE LET row_index == items[n].idx
             res == RemapItem(items[n], rows[row_index], line_mappings_)
         IN RemapLoop(items, n + 1,
                      [rows EXCEPT ![row_index] = res.row],
                      DictSet(new_violation_tracker, res.key, row_index),
                      line_mappings_)

\* _update_violation_line_numbers_batch
UpdateViolationLineNumbersBatch(tracker, rows, line_mappings_) ==
    IF DOMAIN line_mappings_ = {}
    THEN [rows |-> rows, tracker |-> tracker]
    ELSE RemapLoop(tracker, 1, rows, <<>>, line_mappings_)

\* current_violations_set of lines 283-290
CurrentViolationsSet(violations) ==
    {ViolationKey(violations[n]) : n \in 1..Len(violations)}

\* whether the loop of lines 294-300 marks the row of this tracker item
IsNewlyFixed(item, rows, current_violations_set) ==
    /\ item.key \notin current_violations_set
    /\ rows[item.idx].fixed = "False"

\* MarkFixed with the commit written to column 6 (Error Commit Hash) instead
\* of column 7 (line 298)
MarkFixedErrorColumn(tracker, rows, current_violations_set, commit_hash) ==
    [i \in 1..Len(rows) |->
        IF \E n \in 1..Len(tracker) :
              /\ tracker[n].idx = i
              /\ IsNewlyFixed(tracker[n], rows, current_violations_set)
        THEN [rows[i] EXCEPT !.err_commit = commit_hash, !.fixed = "True"]
        ELSE rows[i]]

\* MarkFixed with the row's own Error Commit Hash written as its fix commit
MarkFixedFirstSeenCommit(tracker, rows, current_violations_set, commit_hash) ==
    [i \in 1..Len(rows) |->
        IF \E n \in 1..Len(tracker) :
              /\ tracker[n].idx = i
              /\ IsNewlyFixed(tracker[n], rows, current_violations_set)
        THEN [rows[i] EXCEPT !.fix_commit = rows[i].err_commit, !.fixed = "True"]
        ELSE rows[i]]

\* lines 292-300: every tracker key missing from the snapshot whose row is
\* still 'False' gets the fix commit; tracker items have distinct row indexes
MarkFixed(tracker, rows, current_violations_set, commit_hash) ==
    [i \in 1..Len(rows) |->
        IF \E n \in 1..Len(tracker) :
              /\ tracker[n].idx = i
              /\ IsNewlyFixed(tracker[n], rows, current_violations_set)
        THEN [rows[i] EXCEPT !.fix_commit = commit_hash, !.fixed = "True"]
        ELSE rows[i]]

\* the test of line 311
IsNewViolation(tracker, violation) == ~HasKey(tracker, ViolationKey(violation))

RECURSIVE MarkNewRestamp(_, _, _, _, _)
\* MarkNew that writes commit_hash to column 6 (Error Commit Hash) of the row
\* of a violation whose key is in the tracker
MarkNewRestamp(violations, n, rows, tracker, commit_hash) ==
    IF n > Len(violations)
    THEN [rows |-> rows, tracker |-> tracker]
    ELSE IF IsNewViolation(tracker, violations[n])
         THEN MarkNewRestamp(violations, n + 1,
                      Append(rows, CreateViolationRowData(violations[n], commit_hash)),
                      DictSet(tracker, ViolationKey(violations[n]), Len(rows) + 1),
                      commit_hash)
         ELSE LET item == CHOOSE m \in 1..Len(tracker) :
                             tracker[m].key = ViolationKey(violations[n])
              IN MarkNewRestamp(violations, n + 1,
                      [rows EXCEPT ![tracker[item].idx].err_commit = commit_hash],
                      tracker, commit_hash)

RECURSIVE MarkNew(_, _, _, _, _)
\* lines 302-317
MarkNew(violations, n, rows, tracker, commit_hash) ==
    IF n > Len(violations)
    THEN [rows |-> rows, tracker |-> tracker]
    ELSE IF IsNewViolation(tracker, violations[n])
         THEN MarkNew(violations, n + 1,
                      Append(rows, CreateViolationRowData(violations[n], commit_hash)),
                      DictSet(tracker, ViolationKey(violations[n]), Len(rows) + 1),
                      commit_hash)
         ELSE MarkNew(violations, n + 1, rows, tracker, commit_hash)

\* one pass of the loop of lines 267-317
AdvanceLedger(tracker, rows, line_mappings_, violations, commit_hash) ==
    LET remapped == UpdateViolationLineNumbersBatch(tracker, rows, line_mappings_)
        marked   == MarkFixed(remapped.tracker, remapped.rows,
                              CurrentViolationsSet(violations), commit_hash)
    IN MarkNew(violations, 1, marked, remapped.tracker, commit_hash)

RECURSIVE SeedLedger(_, _, _, _, _)
\* lines 250-261: every initial violation becomes a row and a tracker item
SeedLedger(violations, n, rows, tracker, commit_hash) ==
    IF n > Len(violations)
    THEN [rows |-> rows, tracker |-> tracker]
    ELSE SeedLedger(violations, n + 1,
                    Append(rows, CreateViolationRowData(violations[n], commit_hash)),
                    DictSet(tracker, ViolationKey(violations[n]), Len(rows) + 1),
                    commit_hash)

----------------------------------------------------------------------------
(* analyze_parallel.py: the pool of worker processes and what they share *)

\* pkgName of the entries of valid_repos, in list order
ValidRepos == <<"p1", "p2", "p3">>

Projects == {ValidRepos[i] : i \in 1..Len(ValidRepos)}

\* os.getpid() of the processes of the pool, as f"{os.getpid()}" prints it
Pids == {"101", "102"}

\* the dict a worker returns on a failure (lines 87, 94, 102, 172, 204)
Failure(pkg_name, error) ==
    [pkg_name |-> pkg_name, success |-> FALSE, error |-> error]

NoResult == Failure("", "")

\* a pool process that runs no worker call
IdleWorker ==
    [pkg_name |-> "", pc |-> "idle", commits_data |-> <<>>,
     violation_rows |-> <<>>, result |-> NoResult]

\* a future nobody has run yet
PendingFuture == [state |-> "PENDING", result |-> NoResult, yielded |-> FALSE]

\* no pool: the state of the pool's variables in the runs without one
NoPool ==
    /\ repo_queue = <<>>
    /\ pool_workers = [pid \in Pids |-> IdleWorker]
    /\ fs = EmptyDict
    /\ futures = [p \in Projects |-> PendingFuture]
    /\ completed_count = 0
    /\ success_count = 0

----------------------------------------------------------------------------
(* Inputs of a ledger run *)

\* parse_flake8_output keeps one violation per (code, file, line)
Snapshots == {ReportOrder(S) : S \in SUBSET RawUniverse}

\* the '@@' lines a commit of a ledger run can carry for a file
LedgerHunkLines ==
    {HunkLine(TRUE, a, <<b>>, c, <<d>>) :
        a \in 1..MaxLine, b \in 0..MaxCount, c \in 1..MaxLine, d \in 0..MaxCount}
    \cup {HunkLine(FALSE, 0, <<>>, 0, <<>>)}

\* what _parse_diff_output returns for a commit: no file, or a changed file
\* with its '@@' lines
DiffChoices ==
    {EmptyDict}
    \cup {[f \in {file} |-> <<h>>] : file \in Files, h \in LedgerHunkLines}

\* the line maps calculate_line_mapping returns when 'git show' succeeds
LineMappingChoices == {CalculateLineMapping(diff_hunks) : diff_hunks \in DiffChoices}

\* result.returncode of 'git show': 0, or 128 for a commit git cannot show
ReturnCodes == {0, 128}

\* what one call of _calculate_line_mappings_for_commit can meet: the exit
\* status of 'git show' and the line maps that come back
GitShowOutcomes ==
    {[returncode |-> 0, mappings |-> m] : m \in LineMappingChoices}
    \cup {[returncode |-> rc,
           mappings |-> CalculateLineMapping(GetDiffForCommit(rc, diff_hunks))] :
              rc \in ReturnCodes \ {0}, diff_hunks \in DiffChoices}

----------------------------------------------------------------------------
(* The ledger run: process_violations_batch_optimized *)

Init ==
    /\ violation_rows = <<>>
    /\ violation_tracker = <<>>
    /\ commit_index = 0
    /\ line_mappings = EmptyDict
    /\ current_violations = <<>>
    /\ returncode = 0
    /\ diff_commit = ""
    /\ csv_file = <<>>
    /\ NoPool
    /\ map_pc = "idle"
    /\ hunk_lines = <<>>
    /\ file_line_mapping = <<>>
    /\ diff_output = <<>>
    /\ diff_mappings = EmptyDict
    /\ header_text = <<>>
    /\ header_mapping = NoMapping
    /\ fix_history_df = <<>>
    /\ changed_python_files = {}

\* lines 250-261, on commits_data[0]
ProcessInitialViolations ==
    /\ map_pc = "idle"
    /\ commit_index = 0
    /\ \E initial_violations \in Snapshots :
          LET seeded == SeedLedger(initial_violations, 1, <<>>, <<>>, CommitHash(1))
          IN /\ violation_rows' = seeded.rows
             /\ violation_tracker' = seeded.tracker
             /\ current_violations' = initial_violations
    /\ commit_index' = 1
    /\ UNCHANGED <<line_mappings, returncode, diff_commit, csv_file, df_vars, pool_vars,
                   map_vars>>

\* one pass of the loop of lines 267-317, on commits_data[commit_index]
ProcessCommit ==
    /\ map_pc = "idle"
    /\ commit_index >= 1
    /\ commit_index < MaxCommits
    /\ \E git_show \in GitShowOutcomes, violations \in Snapshots :
          LET commit_hash == CommitHash(commit_index + 1)
              advanced == AdvanceLedger(violation_tracker, violation_rows,
                                        git_show.mappings, violations, commit_hash)
          IN /\ returncode' = git_show.returncode
             /\ diff_commit' = commit_hash
             /\ line_mappings' = git_show.mappings
             /\ current_violations' = violations
             /\ violation_rows' = advanced.rows
             /\ violation_tracker' = advanced.tracker
    /\ commit_index' = commit_index + 1
    /\ UNCHANGED <<csv_file, df_vars, pool_vars, map_vars>>

Next == ProcessInitialViolations \/ ProcessCommit

Spec == Init /\ [][Next]_vars

----------------------------------------------------------------------------
(* The stand-alone line-map computation: _process_hunks followed by
   _calculate_file_line_mapping on the '@@' lines of one file *)

\* the lists over S with a length in lengths
SeqsOfLengths(S, lengths) == UNION {[1..n -> S] : n \in lengths}

MapHunkLines == HunkLinesUpTo(MaxHunkLine, MaxCount)

InitMap ==
    /\ violation_rows = <<>>
    /\ violation_tracker = <<>>
    /\ commit_index = 0
    /\ line_mappings = EmptyDict
    /\ current_violations = <<>>
    /\ returncode = 0
    /\ diff_commit = ""
    /\ csv_file = <<>>
    /\ NoPool
    /\ map_pc = "input"
    /\ hunk_lines \in SeqsOfLengths(MapHunkLines, HunkListLengths)
    /\ file_line_mapping = <<>>
    /\ diff_output = <<>>
    /\ diff_mappings = EmptyDict
    /\ header_text = <<>>
    /\ header_mapping = NoMapping
    /\ fix_history_df = <<>>
    /\ changed_python_files = {}

CalculateMapping ==
    /\ map_pc = "input"
    /\ file_line_mapping' = CalculateFileLineMapping(ProcessHunks(hunk_lines))
    /\ map_pc' = "done"
    /\ UNCHANGED <<hunk_lines, diff_output, diff_mappings, header_text, header_mapping,
                   ledger_vars, csv_file, df_vars, pool_vars>>

NextMap == CalculateMapping

SpecMap == InitMap /\ [][NextMap]_vars

----------------------------------------------------------------------------
(* The line map of a permuted hunk list.  Here the dict that _process_hunks
   builds is kept as the list of its keys in insertion order, which is the
   order in which _calculate_file_line_mapping meets them. *)

\* the keys range(count) gives from start on, in loop order
RangeSeq(start, count) == [i \in 1..count |-> start + i - 1]

\* the keys of the dict of one header in insertion order: the old lines
\* (lines 91-93), then the "new_<n>" keys (lines 96-98)
ParseHunkHeaderKeys(hunk_line) ==
    IF ~hunk_line.matches
    THEN <<>>
    ELSE [i \in 1..CountOf(hunk_line.old_count) |->
             [new |-> FALSE,
              line |-> RangeSeq(hunk_line.old_start, CountOf(hunk_line.old_count))[i]]]
         \o [i \in 1..CountOf(hunk_line.new_count) |->
                [new |-> TRUE,
                 line |-> RangeSeq(hunk_line.new_start, CountOf(hunk_line.new_count))[i]]]

RECURSIVE DictUpdate(_, _)
\* dict.update: a key the dict has keeps its place, a new key goes last
DictUpdate(keys, more) ==
    IF more = <<>> THEN keys
    ELSE DictUpdate(IF \E n \in 1..Len(keys) : keys[n] = Head(more)
                    THEN keys ELSE Append(keys, Head(more)),
                    Tail(more))

RECURSIVE ProcessHunksKeys(_, _)
\* _process_hunks: line_mapping.update(mapping) for every '@@' line in turn
ProcessHunksKeys(hunks, keys) ==
    IF hunks = <<>> THEN keys
    ELSE ProcessHunksKeys(Tail(hunks), DictUpdate(keys, ParseHunkHeaderKeys(Head(hunks))))

RECURSIVE LinesOfKeys(_, _)
\* the loop of lines 118-122: deleted_lines (new_ = FALSE) or added_lines
\* (new_ = TRUE) in the order of the dict
LinesOfKeys(keys, new_) ==
    IF keys = <<>> THEN <<>>
    ELSE (IF Head(keys).new = new_ THEN <<Head(keys).line>> ELSE <<>>)
         \o LinesOfKeys(Tail(keys), new_)

\* SortList that leaves the list in the order of the dict
SortListUnsorted(list) == list

\* list.sort() of lines 124-125 on a list of distinct integers
SortList(list) == SortedSeq({list[n] : n \in 1..Len(list)})

\* _calculate_file_line_mapping on the dict with these keys
CalculateFileLineMappingOfKeys(keys) ==
    LET deleted_lines == SortList(LinesOfKeys(keys, FALSE))
        added_lines   == SortList(LinesOfKeys(keys, TRUE))
        max_line      == Max({1} \cup {keys[n].line : n \in 1..Len(keys)})
    IN WalkLines(deleted_lines, added_lines, 1, max_line, 0, 0, 0)

\* the lists with the elements of list in another order (or the same)
HunkOrders(list) ==
    {[n \in 1..Len(list) |-> list[order[n]]] :
        order \in {f \in [1..Len(list) -> 1..Len(list)] :
                      \A i, j \in 1..Len(list) : i # j => f[i] # f[j]}}

\* the same computation on the '@@' lines of the file in another order
PermuteHunks ==
    /\ map_pc = "done"
    /\ \E permuted \in HunkOrders(hunk_lines) :
          /\ hunk_lines' = permuted
          /\ file_line_mapping' =
                CalculateFileLineMappingOfKeys(ProcessHunksKeys(permuted, <<>>))
    /\ map_pc' = "permuted"
    /\ UNCHANGED <<diff_output, diff_mappings, header_text, header_mapping,
                   ledger_vars, csv_file, df_vars, pool_vars>>

NextPermute == CalculateMapping \/ PermuteHunks

SpecPermute == InitMap /\ [][NextPermute]_vars

----------------------------------------------------------------------------
(* The stand-alone parse of a diff text: _parse_diff_output on the output of
   'git show --unified=0 --no-color <commit>', then calculate_line_mapping *)

\* 'diff --git a/<f> b/<f>', the boundary of line 38
DiffGitLine(f) == <<"diff --git", f>>

\* 'diff --cc <f>', the section header of the combined diff of a merge commit
DiffCcLine(f) == <<"diff --cc", f>>

\* '--- a/<f>'
MinusLine(f) == <<"--- a/", f>>

\* '+++ b/<f>': the file header of a section, and also an added line of a
\* hunk whose text is '++ b/<f>'
PlusLine(f) == <<"+++ b/", f>>

\* '+++ /dev/null', the header of a deleted file
DevNullLine == <<"+++ ", "/dev/null">>

\* an added line of a hunk with any other text
ContentLine == <<"+", "x = 1">>

\* '@@ -a[,b] +c[,d] @@' from the digits of its numbers; a count is <<>>
\* when the header omits it
HunkText(a, b, c, d) ==
    <<"@", "@", " ", "-">> \o a \o (IF b = <<>> THEN <<>> ELSE <<",">> \o b)
        \o <<" ", "+">> \o c \o (IF d = <<>> THEN <<>> ELSE <<",">> \o d)
        \o <<" ", "@", "@">>

\* '@@@ -1 -1 +1 @@@', a hunk header of a combined diff
CombinedHunkText ==
    <<"@", "@", "@", " ", "-", "1", " ", "-", "1", " ", "+", "1", " ", "@", "@", "@">>

\* the '@@' lines of the diffs of this parse: '@@ -1 +1,2 @@' and '@@ -2,0 +3 @@'
DiffHunkTexts ==
    {HunkText(<<"1">>, <<>>, <<"1">>, <<"2">>),
     HunkText(<<"2">>, <<"0">>, <<"3">>, <<>>)}

\* how many lines follow the header of a section
BodyLengths == 0..2

\* what follows the header of the section of a changed file: '@@' lines and
\* the added lines after them
Bodies ==
    {body \in SeqsOfLengths(DiffHunkTexts \cup {PlusLine(f) : f \in Files}
                                \cup {ContentLine}, BodyLengths) :
        body # <<>> => body[1] \in DiffHunkTexts}

\* the sections 'git show' prints for file f: changed or new, deleted, with
\* no text change (mode, binary), and changed by a merge
Sections(f) ==
    {<<DiffGitLine(f), MinusLine(f), PlusLine(f)>> \o body : body \in Bodies}
    \cup {<<DiffGitLine(f), MinusLine(f), DevNullLine>> \o body :
             body \in SeqsOfLengths(DiffHunkTexts, BodyLengths)}
    \cup {<<DiffGitLine(f)>>}
    \cup {<<DiffCcLine(f), MinusLine(f), PlusLine(f)>> \o body :
             body \in SeqsOfLengths({CombinedHunkText}, BodyLengths)}

\* the output of 'git show' for a commit: one section per file it touches,
\* in path order
DiffOutputs ==
    {<<>>}
    \cup UNION {Sections(f) : f \in Files}
    \cup {first \o second :
             first \in Sections(FilesSeq[1]), second \in Sections(FilesSeq[2])}

InitDiff ==
    /\ violation_rows = <<>>
    /\ violation_tracker = <<>>
    /\ commit_index = 0
    /\ line_mappings = EmptyDict
    /\ current_violations = <<>>
    /\ returncode = 0
    /\ diff_commit = ""
    /\ csv_file = <<>>
    /\ NoPool
    /\ map_pc = "parse"
    /\ hunk_lines = <<>>
    /\ file_line_mapping = <<>>
    /\ diff_output \in DiffOutputs
    /\ diff_mappings = EmptyDict
    /\ header_text = <<>>
    /\ header_mapping = NoMapping
    /\ fix_history_df = <<>>
    /\ changed_python_files = {}

\* calculate_line_mapping (lines 102-110) on a 'git show' that exits with 0
ParseDiff ==
    /\ map_pc = "parse"
    /\ diff_mappings' = ParseDiffOutput(diff_output)
    /\ line_mappings' = [f \in DOMAIN ParseDiffOutput(diff_output) |->
                            CalculateFileLineMapping(ParseDiffOutput(diff_output)[f])]
    /\ map_pc' = "parsed"
    /\ UNCHANGED <<violation_rows, violation_tracker, commit_index,
                   current_violations, returncode, diff_commit, csv_file, df_vars,
                   pool_vars, hunk_lines, file_line_mapping, diff_output,
                   header_text, header_mapping>>

NextDiff == ParseDiff

SpecDiff == InitDiff /\ [][NextDiff]_vars

----------------------------------------------------------------------------
(* The stand-alone parse of one '@@' line: _parse_hunk_header on its text,
   and _process_hunks on the '@@' lines of a file that ends with it *)

\* the numbers of the headers of this parse, as git prints them
StartNumerals == {<<"0">>, <<"1">>, <<"2">>, <<"1", "0">>}

\* the counts of the headers of this parse; <<>> when the header has none
CountNumerals == {<<>>, <<"0">>, <<"1">>, <<"2">>}

\* what follows the closing '@@': nothing, or the text of the enclosing
\* function
HeaderTails == {<<>>, <<" ", "d", "e", "f">>}

\* lines that start with '@@' and are no hunk header
MalformedHunkTexts ==
    {CombinedHunkText,
     <<"@", "@">>,
     <<"@", "@", "-", "1", " ", "+", "1", " ", "@", "@">>,
     <<"@", "@", " ", "-", "1", " ", "+", "1">>,
     <<"@", "@", " ", "-", "1", ",", " ", "+", "1", " ", "@", "@">>,
     <<"@", "@", " ", "-", " ", "+", "1", " ", "@", "@">>,
     <<"@", "@", " ", "-", "1", " ", "1", " ", "@", "@">>,
     <<"@", "@", " ", "-", "x", " ", "+", "1", " ", "@", "@">>,
     <<"@", "@", " ", "-", "1", " ", "+", "1", ",", "x", " ", "@", "@">>}

HunkTexts ==
    {HunkText(a, b, c, d) \o tail :
        a \in StartNumerals, b \in CountNumerals,
        c \in StartNumerals, d \in CountNumerals, tail \in HeaderTails}
    \cup MalformedHunkTexts

\* the '@@' lines of the file that precede the line
EarlierHunkLines == {<<>>, <<HunkLine(TRUE, 1, <<1>>, 1, <<2>>)>>}

InitHunk ==
    /\ violation_rows = <<>>
    /\ violation_tracker = <<>>
    /\ commit_index = 0
    /\ line_mappings = EmptyDict
    /\ current_violations = <<>>
    /\ returncode = 0
    /\ diff_commit = ""
    /\ csv_file = <<>>
    /\ NoPool
    /\ map_pc = "header"
    /\ hunk_lines \in EarlierHunkLines
    /\ file_line_mapping = <<>>
    /\ diff_output = <<>>
    /\ diff_mappings = EmptyDict
    /\ header_text \in HunkTexts
    /\ header_mapping = NoMapping
    /\ fix_history_df = <<>>
    /\ changed_python_files = {}

\* _parse_hunk_header on header_text, and the line map of the file whose
\* '@@' lines are hunk_lines followed by header_text
ParseHeader ==
    /\ map_pc = "header"
    /\ header_mapping' = ParseHunkHeaderText(header_text)
    /\ file_line_mapping' =
          CalculateFileLineMapping(
              ProcessHunks(Append(hunk_lines, MatchHunkHeader(header_text))))
    /\ map_pc' = "header_done"
    /\ UNCHANGED <<hunk_lines, header_text, diff_output, diff_mappings, ledger_vars,
                   csv_file, df_vars, pool_vars>>

NextHunk == ParseHeader

SpecHunk == InitHunk /\ [][NextHunk]_vars

----------------------------------------------------------------------------
(* The CSV path: csv_exporter.py create_fix_history_csv and
   update_fix_history_csv, called once per commit by analyze_main_parallel.py
   with the repository checked out at that commit *)

\* the message flake8 prints after the code (flake8_analyzer.py:97)
Messages == {"line too long (80 > 79 characters)",
             "line too long (81 > 79 characters)"}

\* parse_flake8_output keeps the first finding per (code, file, line)
\* (flake8_analyzer.py:103-111), whatever its message
CsvSnapshots ==
    {ReportOrder(S) :
        S \in {T \in SUBSET {[vid |-> "E501", file |-> "a.py", message |-> m, line |-> l] :
                                 m \in Messages, l \in 1..MaxLine} :
                  \A v, w \in T : v.line = w.line => v = w}}

\* (violation[0], violation[1], violation[2], violation[4]), lines 57 and 86
CsvViolationKey(violation) ==
    <<violation.vid, violation.file, violation.message, violation.line>>

\* existing_violation_key, lines 72 and 94
ExistingViolationKey(row) == <<row.vid, row.file, row.message, row.line>>

\* the row of lines 34-37 and 110-113
CsvRow(violation, commit) ==
    [vid |-> violation.vid, file |-> violation.file, message |-> violation.message,
     line |-> violation.line, err_commit |-> commit, fix_commit |-> "",
     fixed |-> "False"]

\* diff_tracker.py update_violation_line_numbers
UpdateViolationLineNumbers(rows, line_mappings_) ==
    [i \in 1..Len(rows) |->
        IF /\ rows[i].fix_commit = ""
           /\ rows[i].file \in DOMAIN line_mappings_
           /\ IsDigit(rows[i].line)
           /\ rows[i].line \in DOMAIN line_mappings_[rows[i].file]
        THEN [rows[i] EXCEPT !.line = line_mappings_[rows[i].file][rows[i].line]]
        ELSE rows[i]]

\* diff_tracker.py track_violation_movement
TrackViolationMovement(rows, line_mappings_) ==
    IF DOMAIN line_mappings_ = {}
    THEN rows
    ELSE UpdateViolationLineNumbers(rows, line_mappings_)

\* what 'git log --format=%H -n 2 --skip 1' leaves in previous_commits when
\* HEAD is the commit at position commit_index + 1: nothing when git fails,
\* else the commits before HEAD, the nearest first
PreviousCommitsChoices == {<<>>, <<CommitHash(commit_index)>>}

RECURSIVE AppendNewCsvRows(_, _, _, _, _)
\* lines 81-116: rows is the file as read at line 50
AppendNewCsvRows(violations, n, rows, written, current_commit) ==
    IF n > Len(violations)
    THEN written
    ELSE AppendNewCsvRows(violations, n + 1, rows,
            IF \E i \in 1..Len(rows) :
                  ExistingViolationKey(rows[i]) = CsvViolationKey(violations[n])
            THEN written
            ELSE Append(written, CsvRow(violations[n], current_commit)),
            current_commit)

\* lines 48-116 of update_fix_history_csv
RewriteCsv(rows, violations, current_commit) ==
    LET current_violations_set ==
            {CsvViolationKey(violations[n]) : n \in 1..Len(violations)}
        existing ==
            [i \in 1..Len(rows) |->
                IF /\ ExistingViolationKey(rows[i]) \notin current_violations_set
                   /\ rows[i].fixed = "False"
                THEN [rows[i] EXCEPT !.fix_commit = current_commit, !.fixed = "True"]
                ELSE rows[i]]
    IN AppendNewCsvRows(violations, 1, rows, existing, current_commit)

\* create_fix_history_csv, on the first commit
CreateFixHistoryCsv ==
    /\ commit_index = 0
    /\ \E initial_violations \in CsvSnapshots :
          /\ csv_file' = [n \in 1..Len(initial_violations) |->
                             CsvRow(initial_violations[n], CommitHash(1))]
          /\ current_violations' = initial_violations
    /\ commit_index' = 1
    /\ UNCHANGED <<violation_rows, violation_tracker, line_mappings, returncode,
                   diff_commit, pool_vars, df_vars, map_vars>>

\* update_fix_history_csv, on the commit at position commit_index + 1:
\* _update_line_numbers_for_previous_violations (lines 152-176), then the
\* rewrite of the file
UpdateFixHistoryCsv ==
    /\ commit_index >= 1
    /\ commit_index < MaxCommits
    /\ \E previous_commits \in PreviousCommitsChoices,
          git_show \in GitShowOutcomes, violations \in CsvSnapshots :
          LET tracked == previous_commits # <<>>
              moved == IF tracked
                       THEN TrackViolationMovement(csv_file, git_show.mappings)
                       ELSE csv_file
          IN /\ diff_commit' = IF tracked THEN previous_commits[1] ELSE ""
             /\ returncode' = IF tracked THEN git_show.returncode ELSE returncode
             /\ line_mappings' = IF tracked THEN git_show.mappings ELSE EmptyDict
             /\ current_violations' = violations
             /\ csv_file' = RewriteCsv(moved, violations, CommitHash(commit_index + 1))
    /\ commit_index' = commit_index + 1
    /\ UNCHANGED <<violation_rows, violation_tracker, pool_vars, df_vars, map_vars>>

NextCsv == CreateFixHistoryCsv \/ UpdateFixHistoryCsv

SpecCsv == Init /\ [][NextCsv]_vars

----------------------------------------------------------------------------
(* The sequential run: analyze_main.py analyze_repository with the DataFrame
   tracker of data_manager.py (initialize_fix_history_dataframe, then one
   update_fix_history_dataframe per commit that changes Python files).  The
   column Fixed holds the bools False and True, written "False" and "True". *)

\* row_data of lines 419-447 and 513-541
DataframeRow(violation, commit) ==
    [vid |-> violation.vid, file |-> violation.file,
     message |-> MessageOf(violation), line |-> violation.line,
     err_commit |-> commit, fix_commit |-> "", fixed |-> "False"]

\* existing_violation_key of lines 479-483 and existing_key of lines 503-507
DataframeRowKey(row) == <<row.vid, row.file, row.line>>

\* _update_dataframe_violation_line_numbers
UpdateDataframeViolationLineNumbers(rows, line_mappings_) ==
    [i \in 1..Len(rows) |->
        IF /\ rows[i].fix_commit = ""
           /\ rows[i].file \in DOMAIN line_mappings_
           /\ IsDigit(rows[i].line)
           /\ rows[i].line \in DOMAIN line_mappings_[rows[i].file]
        THEN [rows[i] EXCEPT !.line = line_mappings_[rows[i].file][rows[i].line]]
        ELSE rows[i]]

\* _track_violation_movement_dataframe
TrackViolationMovementDataframe(rows, line_mappings_) ==
    IF DOMAIN line_mappings_ = {}
    THEN rows
    ELSE UpdateDataframeViolationLineNumbers(rows, line_mappings_)

\* lines 476-489
MarkFixedDataframe(rows, current_violations_set, current_commit) ==
    [i \in 1..Len(rows) |->
        IF /\ rows[i].fixed = "False"
           /\ DataframeRowKey(rows[i]) \notin current_violations_set
        THEN [rows[i] EXCEPT !.fix_commit = current_commit, !.fixed = "True"]
        ELSE rows[i]]

RECURSIVE NewDataframeRows(_, _, _, _, _)
\* lines 491-549: rows is the DataFrame the inner loop reads, new_rows the
\* list that is concatenated to it afterwards
NewDataframeRows(violations, n, rows, new_rows, current_commit) ==
    IF n > Len(violations)
    THEN new_rows
    ELSE NewDataframeRows(violations, n + 1, rows,
            IF \E i \in 1..Len(rows) :
                  DataframeRowKey(rows[i]) = ViolationKey(violations[n])
            THEN new_rows
            ELSE Append(new_rows, DataframeRow(violations[n], current_commit)),
            current_commit)

\* update_fix_history_dataframe after the line maps are known (lines 465-556)
UpdateDataframe(rows, line_mappings_, violations, current_commit) ==
    LET moved  == TrackViolationMovementDataframe(rows, line_mappings_)
        marked == MarkFixedDataframe(moved, CurrentViolationsSet(violations),
                                     current_commit)
    IN marked \o NewDataframeRows(violations, 1, marked, <<>>, current_commit)

\* the snapshots of a lint run on the files of file_paths only
\* (run_flake8_on_files, flake8_analyzer.py:43-57)
SnapshotsOnFiles(file_paths) ==
    {violations \in Snapshots :
        \A n \in 1..Len(violations) : violations[n].file \in file_paths}

\* analyze_main.py lines 71-84, on commits[0]: the lint run is on the whole
\* repository
InitializeFixHistoryDataframe ==
    /\ commit_index = 0
    /\ \E initial_violations \in Snapshots :
          fix_history_df' = [n \in 1..Len(initial_violations) |->
                                DataframeRow(initial_violations[n], CommitHash(1))]
    /\ commit_index' = 1
    /\ UNCHANGED <<violation_rows, violation_tracker, line_mappings,
                   current_violations, returncode, diff_commit,
                   changed_python_files, csv_file, pool_vars, map_vars>>

\* analyze_main.py lines 97-102: a commit that changes no Python file
SkipCommit ==
    /\ commit_index >= 1
    /\ commit_index < MaxCommits
    /\ changed_python_files' = {}
    /\ commit_index' = commit_index + 1
    /\ UNCHANGED <<violation_rows, violation_tracker, line_mappings,
                   current_violations, returncode, diff_commit, fix_history_df,
                   csv_file, pool_vars, map_vars>>

\* analyze_main.py lines 104-116 on the commit at position commit_index + 1:
\* the lint run on the changed files, then update_fix_history_dataframe with
\* _update_dataframe_line_numbers_for_previous_violations (lines 585-610);
\* the line maps, the exit status and the snapshot are locals of the call
UpdateFixHistoryDataframe ==
    /\ commit_index >= 1
    /\ commit_index < MaxCommits
    /\ \E changed \in (SUBSET Files) \ {{}},
          previous_commits \in PreviousCommitsChoices,
          git_show \in GitShowOutcomes :
          \E violations \in SnapshotsOnFiles(changed) :
             LET mappings == IF previous_commits # <<>>
                             THEN git_show.mappings ELSE EmptyDict
             IN /\ changed_python_files' = changed
                /\ fix_history_df' = UpdateDataframe(fix_history_df, mappings, violations,
                                                     CommitHash(commit_index + 1))
    /\ commit_index' = commit_index + 1
    /\ UNCHANGED <<violation_rows, violation_tracker, line_mappings,
                   current_violations, returncode, diff_commit, csv_file,
                   pool_vars, map_vars>>

NextDf == InitializeFixHistoryDataframe \/ SkipCommit \/ UpdateFixHistoryDataframe

SpecDf == Init /\ [][NextDf]_vars

----------------------------------------------------------------------------
(* The two trackers side by side: process_violations_batch_optimized and
   initialize_fix_history_dataframe / update_fix_history_dataframe on the
   same commits, each commit giving both the same line maps and the same raw
   snapshot. *)

\* the initial snapshot: lines 250-261 and lines 408-455
InitializeBothTrackers ==
    /\ map_pc = "idle"
    /\ commit_index = 0
    /\ \E initial_violations \in Snapshots :
          LET seeded == SeedLedger(initial_violations, 1, <<>>, <<>>, CommitHash(1))
          IN /\ violation_rows' = seeded.rows
             /\ violation_tracker' = seeded.tracker
             /\ fix_history_df' = [n \in 1..Len(initial_violations) |->
                                      DataframeRow(initial_violations[n], CommitHash(1))]
    /\ commit_index' = 1
    /\ UNCHANGED <<line_mappings, current_violations, returncode, diff_commit,
                   changed_python_files, csv_file, pool_vars, map_vars>>

\* one later commit: one pass of the loop of lines 267-317 and one call of
\* update_fix_history_dataframe (lines 465-556); the line maps and the
\* snapshot are locals of both
AdvanceBothTrackers ==
    /\ map_pc = "idle"
    /\ commit_index >= 1
    /\ commit_index < MaxCommits
    /\ \E git_show \in GitShowOutcomes, violations \in Snapshots :
          LET commit_hash == CommitHash(commit_index + 1)
              advanced == AdvanceLedger(violation_tracker, violation_rows,
                                        git_show.mappings, violations, commit_hash)
          IN /\ violation_rows' = advanced.rows
             /\ violation_tracker' = advanced.tracker
             /\ fix_history_df' = UpdateDataframe(fix_history_df, git_show.mappings,
                                                  violations, commit_hash)
    /\ commit_index' = commit_index + 1
    /\ UNCHANGED <<line_mappings, current_violations, returncode, diff_commit,
                   changed_python_files, csv_file, pool_vars, map_vars>>

NextBoth == InitializeBothTrackers \/ AdvanceBothTrackers

SpecBoth == Init /\ [][NextBoth]_vars

----------------------------------------------------------------------------
(* The parallel run: analyze_all_repositories_parallel submits one call of
   analyze_repository_worker per repository to a ProcessPoolExecutor and
   takes the futures as they complete.  A path is the tuple of its parts. *)

\* TempDir with one directory name for every call (no pkg_name, no pid)
TempDirShared(pkg_name, pid) == <<"temp", "repo", "0">>

\* f"temp_{pkg_name}_{os.getpid()}", line 68
TempDir(pkg_name, pid) == <<"temp", pkg_name, pid>>

\* logs/projects/<pkg_name>.log, line 52
ProjectLog(pkg_name) == <<"logs", pkg_name, "log">>

\* dataset/<pkg_name>/hash.csv, data_manager.py:30-33
HashCsv(pkg_name) == <<"dataset", pkg_name, "hash.csv">>

\* dataset/<pkg_name>/fix_history.parquet (or .csv), parquet_exporter.py:17-20
FixHistoryFile(pkg_name) == <<"dataset", pkg_name, "fix_history">>

\* open(path, 'w') and write
WriteFile(files, path, content) ==
    [x \in DOMAIN files \cup {path} |-> IF x = path THEN content ELSE files[x]]

\* shutil.rmtree(path) if os.path.exists(path)
RemoveTree(files, path) == [x \in DOMAIN files \ {path} |-> files[x]]

\* the clone of pkg_name is at path
HasCheckout(files, path, pkg_name) ==
    path \in DOMAIN files /\ files[path] = pkg_name

\* what the collection of one commit leaves for the batch: the entry of
\* lines 122 and 148 (commit, violations), whether run_flake8 raised and
\* returned "" (flake8_analyzer.py:39-41), and what 'git show' of that commit
\* will give the batch (its exit status and the line maps that come back)
CommitEntry(commit, violations, flake8_raised, returncode_) ==
    [commit |-> commit,
     violations |-> IF flake8_raised THEN <<>> ELSE violations,
     flake8_raised |-> flake8_raised,
     returncode |-> returncode_,
     mappings |-> CalculateLineMapping(GetDiffForCommit(returncode_, EmptyDict))]

\* commits_data as lines 122-148 build it
PoolCommitsData ==
    LET v == [vid |-> "E501", file |-> "a.py", line |-> 1]
    IN {<<CommitEntry("1", <<>>, FALSE, 0)>>,
        <<CommitEntry("1", <<v>>, FALSE, 0)>>,
        <<CommitEntry("1", <<v>>, FALSE, 0), CommitEntry("2", <<>>, FALSE, 0)>>,
        <<CommitEntry("1", <<v>>, FALSE, 0), CommitEntry("2", <<v>>, FALSE, 128)>>,
        <<CommitEntry("1", <<v>>, FALSE, 0), CommitEntry("2", <<v>>, TRUE, 0)>>}

RECURSIVE BatchLoop(_, _, _)
\* the loop of data_manager.py lines 267-317 over commits_data[1:]
BatchLoop(commits_data, n, ledger) ==
    IF n > Len(commits_data)
    THEN ledger
    ELSE BatchLoop(commits_data, n + 1,
                   AdvanceLedger(ledger.tracker, ledger.rows, commits_data[n].mappings,
                                 commits_data[n].violations, commits_data[n].commit))

\* process_violations_batch_optimized: the rows it returns
ProcessViolationsBatchOptimized(commits_data) ==
    BatchLoop(commits_data, 2,
              SeedLedger(commits_data[1].violations, 1, <<>>, <<>>,
                         commits_data[1].commit)).rows

\* a worker call ends its try block with result and goes to the finally block
Finish(worker, result) == [worker EXCEPT !.pc = "cleanup", !.result = result]

InitPool ==
    /\ violation_rows = <<>>
    /\ violation_tracker = <<>>
    /\ commit_index = 0
    /\ line_mappings = EmptyDict
    /\ current_violations = <<>>
    /\ returncode = 0
    /\ diff_commit = ""
    /\ csv_file = <<>>
    /\ repo_queue = ValidRepos
    /\ pool_workers = [pid \in Pids |-> IdleWorker]
    /\ fs = EmptyDict
    /\ futures = [p \in Projects |-> PendingFuture]
    /\ completed_count = 0
    /\ success_count = 0
    /\ map_pc = "idle"
    /\ hunk_lines = <<>>
    /\ file_line_mapping = <<>>
    /\ diff_output = <<>>
    /\ diff_mappings = EmptyDict
    /\ header_text = <<>>
    /\ header_mapping = NoMapping
    /\ fix_history_df = <<>>
    /\ changed_python_files = {}

\* a free process of the pool takes the next submitted call: lines 65-76
StartWorker(pid) ==
    /\ pool_workers[pid].pc = "idle"
    /\ repo_queue # <<>>
    /\ LET pkg_name == Head(repo_queue)
       IN /\ pool_workers' = [pool_workers EXCEPT
                                 ![pid] = [IdleWorker EXCEPT !.pkg_name = pkg_name,
                                                             !.pc = "clone"]]
          /\ futures' = [futures EXCEPT ![pkg_name].state = "RUNNING"]
          /\ fs' = WriteFile(fs, ProjectLog(pkg_name), "log")
    /\ repo_queue' = Tail(repo_queue)
    /\ UNCHANGED <<completed_count, success_count, ledger_vars, csv_file, df_vars, map_vars>>

\* lines 83-88: 'git clone' fails by itself or because temp_dir is in use
CloneRepo(pid) ==
    /\ pool_workers[pid].pc = "clone"
    /\ \E git_ok \in BOOLEAN :
          LET worker == pool_workers[pid]
              temp_dir == TempDir(worker.pkg_name, pid)
          IN IF git_ok /\ temp_dir \notin DOMAIN fs
             THEN /\ fs' = WriteFile(fs, temp_dir, worker.pkg_name)
                  /\ pool_workers' = [pool_workers EXCEPT ![pid].pc = "collect"]
             ELSE /\ fs' = fs
                  /\ pool_workers' = [pool_workers EXCEPT ![pid] =
                         Finish(worker, Failure(worker.pkg_name, "Clone failed"))]
    /\ UNCHANGED <<repo_queue, futures, completed_count, success_count,
                   ledger_vars, csv_file, df_vars, map_vars>>

\* lines 90-154: flake8 usage, commit list, hash.csv, checkouts and lint runs
CollectCommitsData(pid) ==
    /\ pool_workers[pid].pc = "collect"
    /\ \E outcome \in {"No flake8", "No commits", "CalledProcessError", "ok"},
          commits_data \in PoolCommitsData :
          LET worker == pool_workers[pid]
              pkg_name == worker.pkg_name
              commits == [n \in 1..Len(commits_data) |-> commits_data[n].commit]
          IN IF ~HasCheckout(fs, TempDir(pkg_name, pid), pkg_name)
                \/ outcome = "No flake8"
             THEN /\ fs' = fs
                  /\ pool_workers' = [pool_workers EXCEPT ![pid] =
                         Finish(worker, Failure(pkg_name, "No flake8"))]
             ELSE IF outcome = "No commits"
             THEN /\ fs' = fs
                  /\ pool_workers' = [pool_workers EXCEPT ![pid] =
                         Finish(worker, Failure(pkg_name, "No commits"))]
             ELSE /\ fs' = WriteFile(fs, HashCsv(pkg_name), commits)
                  /\ pool_workers' = [pool_workers EXCEPT ![pid] =
                         IF outcome = "ok"
                         THEN [worker EXCEPT !.pc = "batch",
                                             !.commits_data = commits_data]
                         ELSE Finish(worker, Failure(pkg_name, outcome))]
    /\ UNCHANGED <<repo_queue, futures, completed_count, success_count,
                   ledger_vars, csv_file, df_vars, map_vars>>

\* lines 156-172
ProcessBatch(pid) ==
    /\ pool_workers[pid].pc = "batch"
    /\ LET worker == pool_workers[pid]
           rows == ProcessViolationsBatchOptimized(worker.commits_data)
       IN pool_workers' = [pool_workers EXCEPT ![pid] =
             IF rows # <<>>
             THEN [worker EXCEPT !.pc = "save", !.violation_rows = rows]
             ELSE Finish(worker, Failure(worker.pkg_name, "No violation data"))]
    /\ UNCHANGED <<repo_queue, fs, futures, completed_count, success_count,
                   ledger_vars, csv_file, df_vars, map_vars>>

\* lines 174-204: the save either raises or writes the file, sets
\* fix_history_df to None (data_manager.py:578) and returns the path; then
\* line 184 takes len(data_manager.fix_history_df), which raises TypeError
SaveFixHistory(pid) ==
    /\ pool_workers[pid].pc = "save"
    /\ \E save_ok \in BOOLEAN :
          LET worker == pool_workers[pid]
          IN IF save_ok
             THEN /\ fs' = WriteFile(fs, FixHistoryFile(worker.pkg_name),
                                     worker.violation_rows)
                  /\ pool_workers' = [pool_workers EXCEPT ![pid] =
                         Finish(worker, Failure(worker.pkg_name,
                                "object of type 'NoneType' has no len()"))]
             ELSE /\ fs' = fs
                  /\ pool_workers' = [pool_workers EXCEPT ![pid] =
                         Finish(worker, Failure(worker.pkg_name, "OSError"))]
    /\ UNCHANGED <<repo_queue, futures, completed_count, success_count,
                   ledger_vars, csv_file, df_vars, map_vars>>

\* lines 205-213: the finally block; when rmtree raises, the exception
\* replaces the returned dict and the future holds it
CleanupTempDir(pid) ==
    /\ pool_workers[pid].pc = "cleanup"
    /\ \E rmtree_ok \in BOOLEAN :
          LET worker == pool_workers[pid]
              temp_dir == TempDir(worker.pkg_name, pid)
              raised == temp_dir \in DOMAIN fs /\ ~rmtree_ok
          IN /\ fs' = IF raised THEN fs ELSE RemoveTree(fs, temp_dir)
             /\ futures' = [futures EXCEPT ![worker.pkg_name] =
                    [state |-> IF raised THEN "EXCEPTION" ELSE "FINISHED",
                     result |-> IF raised THEN NoResult ELSE worker.result,
                     yielded |-> FALSE]]
    /\ pool_workers' = [pool_workers EXCEPT ![pid] = IdleWorker]
    /\ UNCHANGED <<repo_queue, completed_count, success_count,
                   ledger_vars, csv_file, df_vars, map_vars>>

\* one turn of the loop of lines 243-270 over as_completed(future_to_repo)
CollectResult ==
    /\ \E pkg_name \in Projects :
          /\ futures[pkg_name].state \in {"FINISHED", "EXCEPTION"}
          /\ ~futures[pkg_name].yielded
          /\ futures' = [futures EXCEPT ![pkg_name].yielded = TRUE]
          /\ success_count' =
                IF futures[pkg_name].state = "FINISHED" /\ futures[pkg_name].result.success
                THEN success_count + 1 ELSE success_count
    /\ completed_count' = completed_count + 1
    /\ UNCHANGED <<repo_queue, pool_workers, fs, ledger_vars, csv_file, df_vars, map_vars>>

NextPool ==
    \/ \E pid \in Pids :
          \/ StartWorker(pid)
          \/ CloneRepo(pid)
          \/ CollectCommitsData(pid)
          \/ ProcessBatch(pid)
          \/ SaveFixHistory(pid)
          \/ CleanupTempDir(pid)
    \/ CollectResult

SpecPool == InitPool /\ [][NextPool]_vars

----------------------------------------------------------------------------
(* Vocabulary of the claims *)

IsOpen(row) == row.fixed = "False"

RowKey(row) == <<row.vid, row.file, row.line>>

OpenRows(rows) == {i \in 1..Len(rows) : IsOpen(rows[i])}

\* the step just taken (or about to be judged) is one pass of the commit loop
AdvanceStep == commit_index >= 1 /\ commit_index' = commit_index + 1

\* the state follows at least one pass of the commit loop
Advanced == commit_index >= 2

\* the ledger right after the remap of the step, before mark fixed / mark new
RemappedByStep ==
    UpdateViolationLineNumbersBatch(violation_tracker, violation_rows, line_mappings')

----------------------------------------------------------------------------
(* C1: no two Open rows of the ledger have the same
   (Violation ID, File Path, Violation Line Number) *)
C1_OpenKeysDistinct ==
    \A i, j \in OpenRows(violation_rows) :
        i # j => RowKey(violation_rows[i]) # RowKey(violation_rows[j])

(* C2: after every pass of the commit loop the number of Open rows equals
   the number of raw violations of that commit's snapshot *)
C2_OpenCountIsSnapshotSize ==
    Advanced => Cardinality(OpenRows(violation_rows)) = Len(current_violations)

(* C3: after every pass of the commit loop each raw violation of the
   snapshot is the key of exactly one Open row *)
C3_OneOpenRowPerViolation ==
    Advanced =>
        \A n \in 1..Len(current_violations) :
            Cardinality({i \in OpenRows(violation_rows) :
                            RowKey(violation_rows[i]) = ViolationKey(current_violations[n])})
                = 1

(* C4: a row that is Fixed is left exactly as it is by every later step:
   its line, its fix commit and its Fixed flag never change again *)
C4_FixedRowsFrozen ==
    [][\A i \in 1..Len(violation_rows) :
           violation_rows[i].fixed = "True" =>
               /\ i <= Len(violation_rows')
               /\ violation_rows'[i] = violation_rows[i]]_vars

\* a row fixed by an earlier commit whose line the last commit's map moves
\* and whose key is reported again by the last commit's snapshot
C4_Witness ==
    \E i \in 1..Len(violation_rows) :
        LET row == violation_rows[i]
        IN /\ row.fixed = "True"
           /\ row.fix_commit # CommitHash(commit_index)
           /\ row.file \in DOMAIN line_mappings
           /\ row.line \in DOMAIN line_mappings[row.file]
           /\ line_mappings[row.file][row.line] # row.line
           /\ RowKey(row) \in CurrentViolationsSet(current_violations)

(* C5: in a pass of the commit loop, every raw violation whose key is the
   key of no Open row after the remap gets a new row at the end of the
   ledger: Open, first seen at this commit, with no fix commit; also when a
   Fixed row has the same rule and file, at the same line or another *)
C5_UnmatchedViolationAppended ==
    [][AdvanceStep =>
         \A n \in 1..Len(current_violations') :
            LET key == ViolationKey(current_violations'[n])
                remapped == RemappedByStep.rows
            IN (\A i \in OpenRows(remapped) : RowKey(remapped[i]) # key) =>
                  \E j \in (Len(violation_rows) + 1)..Len(violation_rows') :
                      /\ RowKey(violation_rows'[j]) = key
                      /\ violation_rows'[j].fixed = "False"
                      /\ violation_rows'[j].err_commit = CommitHash(commit_index')
                      /\ violation_rows'[j].fix_commit = ""]_vars

\* the line maps of a commit whose diff is the one '@@' line h of file f
MappingsOfHunk(f, h) == CalculateLineMapping([g \in {f} |-> <<h>>])

(* C6: when the commit's diff is one insertion-only hunk @@ -p,0 +p,k @@ of
   a file, every Open row of that file at a line L >= p is at line L + k
   after the pass *)
C6_InsertionShiftsLaterLines ==
    [][AdvanceStep =>
         \A f \in Files, p \in 1..MaxLine, k \in 1..MaxCount :
            line_mappings' = MappingsOfHunk(f, HunkLine(TRUE, p, <<0>>, p, <<k>>)) =>
               \A i \in OpenRows(violation_rows) :
                  (violation_rows[i].file = f /\ violation_rows[i].line >= p) =>
                     violation_rows'[i].line = violation_rows[i].line + k]_vars

(* C7: when the commit's diff is one deletion-only hunk of a file, every
   Open row of that file on a deleted line whose key is not in the commit's
   snapshot is Fixed after the pass, with this commit as its fix commit *)
C7_DeletedLineEntryFixed ==
    [][AdvanceStep =>
         \A f \in Files, h \in LedgerHunkLines :
            (/\ h.matches
             /\ CountOf(h.new_count) = 0
             /\ line_mappings' = MappingsOfHunk(f, h)) =>
               \A i \in OpenRows(violation_rows) :
                  (/\ violation_rows[i].file = f
                   /\ violation_rows[i].line \in ParseHunkHeader(h).deleted
                   /\ RowKey(violation_rows[i])
                         \notin CurrentViolationsSet(current_violations')) =>
                     /\ violation_rows'[i].fixed = "True"
                     /\ violation_rows'[i].fix_commit = CommitHash(commit_index')]_vars

(* C8: the line map of a file has no concrete new line for an old line
   that one of the file's hunks deletes *)
C8_DeletedLinesAbsent ==
    map_pc = "done" =>
        \A old_line \in ProcessHunks(hunk_lines).deleted :
            old_line \notin DOMAIN file_line_mapping

\* what a unified diff says, read without the walk of the code
OldCount(h) == CountOf(h.old_count)

NewCount(h) == CountOf(h.new_count)

\* the first old line that lies after the hunk: a hunk with old lines ends
\* with its last old line, an insertion-only hunk inserts after old_start
FirstLineAfter(h) ==
    IF OldCount(h) > 0 THEN h.old_start + OldCount(h) ELSE h.old_start + 1

\* the first old line at which the hunk acts
FirstLineTouched(h) == IF OldCount(h) > 0 THEN h.old_start ELSE h.old_start + 1

RECURSIVE NetOffset(_, _)
\* lines added minus lines removed by the first n hunks
NetOffset(hunks, n) ==
    IF n = 0 THEN 0
    ELSE NetOffset(hunks, n - 1) + NewCount(hunks[n]) - OldCount(hunks[n])

\* the new_start git prints for hunk n
PrintedNewStart(hunks, n) ==
    hunks[n].old_start + NetOffset(hunks, n - 1)
        + (IF OldCount(hunks[n]) = 0 THEN 1
           ELSE IF NewCount(hunks[n]) = 0 THEN -1 ELSE 0)

\* hunks of one file as a unified diff lists them: ascending, disjoint,
\* every new_start the position the earlier hunks leave it at
IsUnifiedDiff(hunks) ==
    \A n \in 1..Len(hunks) :
        /\ hunks[n].matches
        /\ OldCount(hunks[n]) + NewCount(hunks[n]) > 0
        /\ OldCount(hunks[n]) > 0 => hunks[n].old_start >= 1
        /\ hunks[n].new_start = PrintedNewStart(hunks, n)
        /\ n > 1 => FirstLineTouched(hunks[n]) >= FirstLineAfter(hunks[n - 1])

RECURSIVE InsertedBefore(_, _, _)
\* lines inserted before old line L by the first n hunks
InsertedBefore(hunks, n, L) ==
    IF n = 0 THEN 0
    ELSE InsertedBefore(hunks, n - 1, L)
            + (IF FirstLineAfter(hunks[n]) <= L THEN NewCount(hunks[n]) ELSE 0)

DeletedBefore(hunks, L) ==
    Cardinality({d \in ProcessHunks(hunks).deleted : d >= 1 /\ d < L})

(* C9: for the hunks of a unified diff, every old line of the map's range
   that no hunk deletes is mapped to itself plus the lines inserted before
   it minus the lines deleted before it *)
C9_UntouchedLineOffset ==
    (map_pc = "done" /\ IsUnifiedDiff(hunk_lines)) =>
        \A L \in DOMAIN file_line_mapping :
            L \notin ProcessHunks(hunk_lines).deleted =>
                file_line_mapping[L] =
                    L + InsertedBefore(hunk_lines, Len(hunk_lines), L)
                      - DeletedBefore(hunk_lines, L)

\* two hunks and a kept line in range with lines inserted and deleted before it
C9_Witness ==
    /\ map_pc = "done"
    /\ Len(hunk_lines) = 2
    /\ IsUnifiedDiff(hunk_lines)
    /\ \E L \in DOMAIN file_line_mapping :
          /\ L \notin ProcessHunks(hunk_lines).deleted
          /\ InsertedBefore(hunk_lines, 2, L) > DeletedBefore(hunk_lines, L)
          /\ DeletedBefore(hunk_lines, L) > 0

IsIdentityMap(m) == \A L \in DOMAIN m : m[L] = L

(* C10: the map of an empty hunk list sends every line it holds to itself,
   and a pass whose line maps are all identity leaves the line of every
   Open row and the tracker item of every Open row as they were *)
C10_IdentityRemap ==
    [][/\ IsIdentityMap(CalculateFileLineMapping(ProcessHunks(<<>>)))
       /\ (/\ AdvanceStep
           /\ \A f \in DOMAIN line_mappings' : IsIdentityMap(line_mappings'[f])) =>
              /\ \A i \in OpenRows(violation_rows) :
                    violation_rows'[i].line = violation_rows[i].line
              /\ \A n \in 1..Len(violation_tracker) :
                    IsOpen(violation_rows[violation_tracker[n].idx]) =>
                       /\ n <= Len(violation_tracker')
                       /\ violation_tracker'[n] = violation_tracker[n]]_vars

\* a pass with an identity map for the file of a row that was Open before it
C10_Witness ==
    /\ Advanced
    /\ DOMAIN line_mappings # {}
    /\ \A f \in DOMAIN line_mappings : IsIdentityMap(line_mappings[f])
    /\ \E i \in OpenRows(violation_rows) :
          /\ violation_rows[i].err_commit # CommitHash(commit_index)
          /\ violation_rows[i].file \in DOMAIN line_mappings
          /\ violation_rows[i].line \in DOMAIN line_mappings[violation_rows[i].file]

(* C11: in a pass whose line maps have no entry for a file, every Open row
   of that file keeps its line, and every such row whose key is missing
   from the commit's snapshot is Fixed after the pass with this commit as
   its fix commit *)
C11_UnmappedFileFrame ==
    [][AdvanceStep =>
         \A f \in Files \ DOMAIN line_mappings' :
            \A i \in OpenRows(violation_rows) :
               violation_rows[i].file = f =>
                  /\ violation_rows'[i].line = violation_rows[i].line
                  /\ RowKey(violation_rows[i])
                        \notin CurrentViolationsSet(current_violations') =>
                        /\ violation_rows'[i].fixed = "True"
                        /\ violation_rows'[i].fix_commit = CommitHash(commit_index')]_vars

(* C12: every value of a line map is a 1-based line number, and so is the
   line of every row of the ledger, in every state *)
C12_LinesAreOneBased ==
    /\ \A f \in DOMAIN line_mappings :
          \A L \in DOMAIN line_mappings[f] : line_mappings[f][L] >= 1
    /\ \A i \in 1..Len(violation_rows) : violation_rows[i].line >= 1

\* the position of a commit in commits_data
CommitPosition(commit_hash) ==
    CHOOSE i \in 1..MaxCommits : CommitHash(i) = commit_hash

(* C13: rows are only ever appended (no step removes a row or changes the
   rule, the file or the first-seen commit of one), and at every moment a
   row that comes earlier in the ledger was first seen at the same or an
   earlier commit of the commit list than a row that comes later *)
C13_FirstSeenOrder ==
    [][/\ Len(violation_rows') >= Len(violation_rows)
       /\ \A i \in 1..Len(violation_rows) :
             /\ violation_rows'[i].vid = violation_rows[i].vid
             /\ violation_rows'[i].file = violation_rows[i].file
             /\ violation_rows'[i].err_commit = violation_rows[i].err_commit
       /\ \A i, j \in 1..Len(violation_rows') :
             i < j => CommitPosition(violation_rows'[i].err_commit)
                         <= CommitPosition(violation_rows'[j].err_commit)]_vars

\* rows first seen at three different commits, an earlier one Fixed by a
\* later commit
C13_Witness ==
    \E i, j, k \in 1..Len(violation_rows) :
        /\ i < j /\ j < k
        /\ violation_rows[i].err_commit = CommitHash(1)
        /\ violation_rows[j].err_commit = CommitHash(2)
        /\ violation_rows[k].err_commit = CommitHash(3)
        /\ violation_rows[i].fixed = "True"
        /\ violation_rows[i].fix_commit = CommitHash(2)

(* C15: a pass whose 'git show' fails does not advance the ledger over
   that commit (rows and index stay as they were), and the run ends there:
   no later commit is processed *)
C15_DiffFailureEndsRun ==
    [][/\ (AdvanceStep /\ returncode' # 0) =>
             /\ violation_rows' = violation_rows
             /\ violation_tracker' = violation_tracker
       /\ returncode # 0 => commit_index' = commit_index]_vars

(* C17: in every pass, each row that is Open before it and whose key after
   the remap is not in the commit's snapshot is Fixed after the pass, with
   this commit as its fix commit and the line the remap gave it *)
C17_AbsentOpenRowsFixed ==
    [][AdvanceStep =>
         \A i \in OpenRows(violation_rows) :
            RowKey(RemappedByStep.rows[i])
                  \notin CurrentViolationsSet(current_violations') =>
               /\ violation_rows'[i].fixed = "True"
               /\ violation_rows'[i].fix_commit = CommitHash(commit_index')
               /\ violation_rows'[i].line = RemappedByStep.rows[i].line]_vars

(* C18: in every state each Open row is found in the index under its own
   key: violation_tracker[(rule, file, line)] is the row's index *)
C18_OpenRowsIndexed ==
    \A i \in OpenRows(violation_rows) :
        \E n \in 1..Len(violation_tracker) :
            /\ violation_tracker[n].key = RowKey(violation_rows[i])
            /\ violation_tracker[n].idx = i

\* the file has a line map and the line is not one of its keys
BeyondRange(file_path, line, line_mappings_) ==
    /\ file_path \in DOMAIN line_mappings_
    /\ line \notin DOMAIN line_mappings_[file_path]

(* C19: in a pass, an Open row whose file has a line map that does not hold
   the row's line keeps its line, through the remap and to the end of the
   pass, and the key of an index item of such a row stays a key of the
   index *)
C19_BeyondRangeKept ==
    [][AdvanceStep =>
         /\ \A i \in OpenRows(violation_rows) :
               BeyondRange(violation_rows[i].file, violation_rows[i].line,
                           line_mappings') =>
                  /\ RemappedByStep.rows[i].line = violation_rows[i].line
                  /\ violation_rows'[i].line = violation_rows[i].line
         /\ \A n \in 1..Len(violation_tracker) :
               (/\ IsOpen(violation_rows[violation_tracker[n].idx])
                /\ BeyondRange(violation_tracker[n].key[2],
                               violation_tracker[n].key[3], line_mappings')) =>
                  /\ HasKey(RemappedByStep.tracker, violation_tracker[n].key)
                  /\ HasKey(violation_tracker', violation_tracker[n].key)]_vars

\* a row of an earlier commit, still Open, beyond the range of a map of its
\* file that moves a line
C19_Witness ==
    /\ Advanced
    /\ \E i \in OpenRows(violation_rows) :
          /\ violation_rows[i].err_commit # CommitHash(commit_index)
          /\ BeyondRange(violation_rows[i].file, violation_rows[i].line,
                         line_mappings)
          /\ ~IsIdentityMap(line_mappings[violation_rows[i].file])

\* the step is no step of the worker call of pkg_name and not the parent's
\* turn for its future
Untouched(pkg_name) ==
    /\ \A pid \in Pids :
          pool_workers[pid].pkg_name = pkg_name =>
             /\ pool_workers'[pid].pkg_name = pkg_name
             /\ pool_workers'[pid].pc = pool_workers[pid].pc
    /\ \A pid \in Pids :
          pool_workers'[pid].pkg_name = pkg_name =>
             pool_workers[pid].pkg_name = pkg_name
    /\ futures'[pkg_name].yielded = futures[pkg_name].yielded

\* what a project has on disk: its log, its dataset files and its clone
ProjectFiles(files, pkg_name) ==
    [x \in {y \in DOMAIN files :
                \/ y[1] \in {"logs", "dataset"} /\ y[2] = pkg_name
                \/ y[1] = "temp" /\ files[y] = pkg_name} |-> files[x]]

\* nothing is left to run or to collect
PoolDone ==
    /\ repo_queue = <<>>
    /\ \A pid \in Pids : pool_workers[pid].pc = "idle"
    /\ \A q \in Projects :
          futures[q].state \in {"FINISHED", "EXCEPTION"} => futures[q].yielded

(* C14: a step of one project's worker, a failing one included, leaves
   every other project's future, files (log, dataset files, clone) and
   worker state, with the ledger in it, as they were; a result names the
   project of its own worker; the parent has counted exactly the futures it
   took, and when nothing is left to run it has taken a result of every
   submitted project *)
C14_FailureStaysInProject ==
    [][/\ \A q \in Projects :
             Untouched(q) =>
                /\ futures'[q] = futures[q]
                /\ ProjectFiles(fs', q) = ProjectFiles(fs, q)
                /\ \A pid \in Pids :
                      pool_workers[pid].pkg_name = q =>
                         pool_workers'[pid] = pool_workers[pid]
       /\ \A q \in Projects :
             futures'[q].state = "FINISHED" => futures'[q].result.pkg_name = q
       /\ completed_count' = Cardinality({q \in Projects : futures'[q].yielded})
       /\ (PoolDone => \A q \in Projects : futures[q].yielded)']_vars

\* one worker is about to leave with the failure of a required step while
\* another worker is in the middle of its project, its clone on disk and
\* its ledger in memory
C14_Witness ==
    \E pid1, pid2 \in Pids :
        /\ pid1 # pid2
        /\ pool_workers[pid1].pc = "cleanup"
        /\ pool_workers[pid1].result.error \in {"Clone failed", "CalledProcessError"}
        /\ pool_workers[pid2].pc = "save"
        /\ pool_workers[pid2].violation_rows # <<>>
        /\ HasCheckout(fs, TempDir(pool_workers[pid2].pkg_name, pid2),
                       pool_workers[pid2].pkg_name)

\* the rows of the CSV file right after the line update of the step
MovedByStep == TrackViolationMovement(csv_file, line_mappings')

\* same rule, file and line, whatever the message
SameRuleFileLine(a, b) == a.vid = b.vid /\ a.file = b.file /\ a.line = b.line

(* C16: in an update of the CSV file, an Open row for which the commit's
   snapshot has a raw violation with the same rule, file and line (the
   row's line after the line update) stays Open and no row with that rule,
   file and line is added, whatever the message of the raw violation *)
C16_MatchIgnoresMessage ==
    [][AdvanceStep =>
         \A i \in 1..Len(csv_file) :
            (/\ MovedByStep[i].fixed = "False"
             /\ \E n \in 1..Len(current_violations') :
                   SameRuleFileLine(current_violations'[n], MovedByStep[i])) =>
               /\ csv_file'[i].fixed = "False"
               /\ \A j \in (Len(csv_file) + 1)..Len(csv_file') :
                     ~SameRuleFileLine(csv_file'[j], MovedByStep[i])]_vars

(* C20: the commits are taken in list order, and the line maps that move
   the rows while the CSV file is advanced to a commit are computed from
   the diff of that same commit *)
C20_MapsFromOwnDiff ==
    [][/\ commit_index' \in {commit_index, commit_index + 1}
       /\ (AdvanceStep /\ DOMAIN line_mappings' # {}) =>
             diff_commit' = CommitHash(commit_index')]_vars

\* the worker call met the failure of a required step: a checkout that
\* raised, a lint run that raised, or a 'git show' with a non-zero exit
RequiredStepFailed(worker) ==
    \/ worker.result.error = "CalledProcessError"
    \/ \E n \in 1..Len(worker.commits_data) :
          \/ worker.commits_data[n].flake8_raised
          \/ worker.commits_data[n].returncode # 0

(* C21: when a worker call that met the failure of a required step (checkout,
   lint run or diff retrieval) reaches its end, the project has no
   fix_history file on disk and the result of the call says failure *)
C21_NoLedgerAfterToolFailure ==
    \A pid \in Pids :
        (/\ pool_workers[pid].pc = "cleanup"
         /\ RequiredStepFailed(pool_workers[pid])) =>
            /\ FixHistoryFile(pool_workers[pid].pkg_name) \notin DOMAIN fs
            /\ ~pool_workers[pid].result.success

\* line n of the text is a '@@' line
IsHunkLine(lines, n) == StartsWith(lines[n], <<"@", "@">>)

RECURSIVE HeaderBefore(_, _)
\* the path of the most recent '+++ b/<path>' line before line n that no
\* 'diff --git' line separates from it; "" when there is none
HeaderBefore(lines, n) ==
    IF n <= 1 THEN ""
    ELSE IF lines[n - 1][1] = "diff --git" THEN ""
    ELSE IF lines[n - 1][1] = "+++ b/" THEN lines[n - 1][2]
    ELSE HeaderBefore(lines, n - 1)

RECURSIVE HunksOfFile(_, _, _)
\* the '@@' lines among the first n lines whose header names file f, in order
HunksOfFile(lines, n, f) ==
    IF n = 0 THEN <<>>
    ELSE IF IsHunkLine(lines, n) /\ HeaderBefore(lines, n) = f
         THEN Append(HunksOfFile(lines, n - 1, f), lines[n])
         ELSE HunksOfFile(lines, n - 1, f)

(* C22: the parse gives every '@@' line to the file of the most recent
   '+++ b/<path>' line since the last 'diff --git' line: the output map has
   an entry exactly for the files that own at least one '@@' line, that
   entry is built from all the '@@' lines of the file, and the line maps
   have an entry for the same files *)
C22_HunksGoToTheirFile ==
    map_pc = "parsed" =>
        LET owners == {f \in Files :
                          HunksOfFile(diff_output, Len(diff_output), f) # <<>>}
        IN /\ DOMAIN diff_mappings = owners
           /\ DOMAIN line_mappings = owners
           /\ \A f \in owners :
                 diff_mappings[f] =
                     ProcessHunkTexts(HunksOfFile(diff_output, Len(diff_output), f))

\* the number a numeral of a header stands for
NumeralValue(digits) ==
    CASE digits = <<"0">> -> 0
      [] digits = <<"1">> -> 1
      [] digits = <<"2">> -> 2
      [] digits = <<"1", "0">> -> 10

\* the count a header gives: the written one, 1 when it is omitted
GivenCount(numeral) == IF numeral = <<>> THEN 1 ELSE NumeralValue(numeral)

\* count consecutive line numbers from start on
LinesFrom(start, count) == {start + i : i \in 0..(count - 1)}

(* C23: for the text '@@ -a[,b] +c[,d] @@', with or without text after it,
   the parse gives the old lines a .. a+b-1 as deleted and the new lines
   c .. c+d-1 as added, where a written count is taken as it is (a written 0
   is 0) and an omitted count is 1; for a '@@' line that is no header the
   parse gives the empty dict, and the line map of the file is the one of
   its other '@@' lines *)
C23_HeaderParse ==
    map_pc = "header_done" =>
        /\ \A a, c \in StartNumerals, b, d \in CountNumerals, tail \in HeaderTails :
              header_text = HunkText(a, b, c, d) \o tail =>
                 header_mapping =
                     [deleted |-> LinesFrom(NumeralValue(a), GivenCount(b)),
                      added   |-> LinesFrom(NumeralValue(c), GivenCount(d))]
        /\ header_text \in MalformedHunkTexts =>
              /\ header_mapping = NoMapping
              /\ file_line_mapping = CalculateFileLineMapping(ProcessHunks(hunk_lines))

\* '@@ -10,0 +10 @@' parsed: a written 0, an omitted count, two-digit starts
C23_Witness ==
    /\ map_pc = "header_done"
    /\ header_text = HunkText(<<"1", "0">>, <<"0">>, <<"1", "0">>, <<>>)
    /\ header_mapping = [deleted |-> {}, added |-> {10}]
    /\ hunk_lines # <<>>

(* C24: in the sequential run, a row that is Open before a commit is
   processed and whose file is not among the files the commit changed is
   still Open after the update of that commit *)
C24_UnchangedFileStaysOpen ==
    [][AdvanceStep =>
         \A i \in 1..Len(fix_history_df) :
            (/\ fix_history_df[i].fixed = "False"
             /\ fix_history_df[i].file \notin changed_python_files') =>
               fix_history_df'[i].fixed = "False"]_vars

\* Fixed is 'True' exactly when there is a fix commit
FixedIffFixCommit(row) ==
    /\ row.fixed \in {"False", "True"}
    /\ row.fixed = "True" <=> row.fix_commit # ""

(* C25: in the batch ledger a row's Fixed is 'True' exactly when its fix
   commit is non-empty, before and after every step; a step changes the two
   columns of a row together or not at all, and a row it adds (seeded or
   new) has Fixed = 'False' and no fix commit *)
C25_FixedIffFixCommit ==
    [][/\ \A i \in 1..Len(violation_rows) : FixedIffFixCommit(violation_rows[i])
       /\ \A i \in 1..Len(violation_rows') : FixedIffFixCommit(violation_rows'[i])
       /\ \A i \in 1..Len(violation_rows) :
             violation_rows'[i].fixed # violation_rows[i].fixed
                <=> violation_rows'[i].fix_commit # violation_rows[i].fix_commit
       /\ \A j \in (Len(violation_rows) + 1)..Len(violation_rows') :
             /\ violation_rows'[j].fixed = "False"
             /\ violation_rows'[j].fix_commit = ""]_vars

\* after the pass of the last commit: a seeded row fixed by an earlier
\* commit, a row fixed by this commit and a row this commit added
C25_Witness ==
    /\ commit_index = MaxCommits
    /\ \E i, j, k \in 1..Len(violation_rows) :
          /\ violation_rows[i].err_commit = CommitHash(1)
          /\ violation_rows[i].fixed = "True"
          /\ violation_rows[i].fix_commit = CommitHash(2)
          /\ violation_rows[j].fixed = "True"
          /\ violation_rows[j].fix_commit = CommitHash(commit_index)
          /\ violation_rows[k].fixed = "False"
          /\ violation_rows[k].err_commit = CommitHash(commit_index)

(* C26: the fix commit of every Fixed row of the batch ledger comes
   strictly later in the commit list than the commit the row was first seen
   at; a row is Open right after the step that adds it, so no row is Fixed
   when only the first commit has been processed *)
C26_FixedAfterFirstSeen ==
    [][/\ \A i \in 1..Len(violation_rows') :
             violation_rows'[i].fixed = "True" =>
                CommitPosition(violation_rows'[i].fix_commit)
                    > CommitPosition(violation_rows'[i].err_commit)
       /\ \A j \in (Len(violation_rows) + 1)..Len(violation_rows') :
             IsOpen(violation_rows'[j])
       /\ commit_index' = 1 => OpenRows(violation_rows') = 1..Len(violation_rows')]_vars

\* a row first seen at the second commit and Fixed by the third, next to a
\* seeded row Fixed by the second
C26_Witness ==
    \E i, j \in 1..Len(violation_rows) :
        /\ violation_rows[i].err_commit = CommitHash(1)
        /\ violation_rows[i].fix_commit = CommitHash(2)
        /\ violation_rows[j].err_commit = CommitHash(2)
        /\ violation_rows[j].fix_commit = CommitHash(3)
        /\ violation_rows[j].fixed = "True"

(* C27: no step of the batch ledger removes or reorders a row or changes
   its rule, file, message or first-seen commit; and in a pass, a row that
   is Open, whose line the remap leaves as it is and whose key is the key
   of a raw violation of the commit's snapshot, is after the pass exactly
   the row it was *)
C27_EntriesFrame ==
    [][/\ Len(violation_rows') >= Len(violation_rows)
       /\ \A i \in 1..Len(violation_rows) :
             /\ violation_rows'[i].vid = violation_rows[i].vid
             /\ violation_rows'[i].file = violation_rows[i].file
             /\ violation_rows'[i].message = violation_rows[i].message
             /\ violation_rows'[i].err_commit = violation_rows[i].err_commit
       /\ AdvanceStep =>
             \A i \in OpenRows(violation_rows) :
                (/\ RemappedByStep.rows[i].line = violation_rows[i].line
                 /\ RowKey(violation_rows[i])
                       \in CurrentViolationsSet(current_violations')) =>
                   violation_rows'[i] = violation_rows[i]]_vars

\* after a pass with a line map for a.py: a row of a.py from an earlier
\* commit that is Open with its key in the snapshot, another row of a.py
\* that this commit fixed, and a row this commit added
C27_Witness ==
    /\ Advanced
    /\ "a.py" \in DOMAIN line_mappings
    /\ ~IsIdentityMap(line_mappings["a.py"])
    /\ \E i, j, k \in 1..Len(violation_rows) :
          /\ IsOpen(violation_rows[i])
          /\ violation_rows[i].file = "a.py"
          /\ violation_rows[i].err_commit # CommitHash(commit_index)
          /\ RowKey(violation_rows[i]) \in CurrentViolationsSet(current_violations)
          /\ violation_rows[j].file = "a.py"
          /\ violation_rows[j].fix_commit = CommitHash(commit_index)
          /\ violation_rows[k].err_commit = CommitHash(commit_index)

(* C28: the line map of a file never decreases with the old line
   (a < b gives map[a] <= map[b]), and on old lines that no hunk deletes it
   strictly increases, so two different undeleted lines never get the same
   new line *)
C28_LineMapMonotone ==
    map_pc = "done" =>
        \A a, b \in DOMAIN file_line_mapping :
            a < b =>
               /\ file_line_mapping[a] <= file_line_mapping[b]
               /\ (/\ a \notin ProcessHunks(hunk_lines).deleted
                   /\ b \notin ProcessHunks(hunk_lines).deleted) =>
                     file_line_mapping[a] < file_line_mapping[b]

\* a map of two hunks in which a deleted line lies between two kept lines,
\* the deleted line gets the new line of the line before it, and a later
\* line is moved down by an insertion
C28_Witness ==
    /\ map_pc = "done"
    /\ Len(hunk_lines) = 2
    /\ \E a, d, b \in DOMAIN file_line_mapping :
          /\ a < d /\ d < b
          /\ d \in ProcessHunks(hunk_lines).deleted
          /\ a \notin ProcessHunks(hunk_lines).deleted
          /\ b \notin ProcessHunks(hunk_lines).deleted
          /\ file_line_mapping[d] = file_line_mapping[a]
          /\ file_line_mapping[b] > b

(* C29: the line map of a file is the same for every order of the file's
   '@@' lines: computed again from any permutation of the list, it is the
   map computed before *)
C29_HunkOrderIrrelevant ==
    [][(map_pc = "done" /\ map_pc' = "permuted") =>
          file_line_mapping' = file_line_mapping]_vars

\* two different '@@' lines with deleted and added lines, taken in the other
\* order, the later hunk of the file first
C29_Witness ==
    /\ map_pc = "permuted"
    /\ Len(hunk_lines) = 2
    /\ hunk_lines[1].matches /\ hunk_lines[2].matches
    /\ hunk_lines[1].old_start > hunk_lines[2].old_start
    /\ ParseHunkHeader(hunk_lines[1]).deleted # {}
    /\ ParseHunkHeader(hunk_lines[2]).deleted # {}
    /\ ParseHunkHeader(hunk_lines[2]).added # {}
    /\ ~IsIdentityMap(file_line_mapping)

\* the entries of a list of rows: (ruleId, filePath, line, firstSeenCommit,
\* fixCommit, Fixed) of every row, in the order of the rows
EntriesOf(rows) ==
    [i \in 1..Len(rows) |->
        <<rows[i].vid, rows[i].file, rows[i].line, rows[i].err_commit,
          rows[i].fix_commit, rows[i].fixed>>]

(* C30: given the same initial snapshot and then the same line maps and raw
   snapshot at every commit, the rows of the batch tracker and the rows of
   the DataFrame tracker are the same list of entries *)
C30_TrackersAgree ==
    commit_index >= 1 => EntriesOf(violation_rows) = EntriesOf(fix_history_df)

============================================================================
